---- MODULE Spec2Model ----
(***************************************************************************)
(* Model of compile.py (element-compiler-python): the web component to JS   *)
(* compiler.  Text is a sequence of code points; a Python string iterated   *)
(* character by character is a sequence of one-character strings.          *)
(***************************************************************************)
EXTENDS Integers, Sequences, FiniteSets, TLC

VARIABLES argv, sasscPresent, p, pc, err, out, style, attributes, sasscLog,
          tag, ret, fpc

vars == <<argv, sasscPresent, p, pc, err, out, style, attributes, sasscLog,
          tag, ret, fpc>>

progVars == <<argv, sasscPresent, p, pc, err, out, style, attributes, sasscLog>>
fnVars == <<tag, ret, fpc>>

\* ------------------------------------------------------------------------
\* Bounds
\* ------------------------------------------------------------------------
MaxDocs == 2
MaxScripts == 2
MaxStyles == 2
MaxStyleLen == 2
MaxLen == 2

\* ------------------------------------------------------------------------
\* Characters (code points)
\* ------------------------------------------------------------------------
LF == 10            \* "\n"
DQUOTE == 34        \* the delimiter html2js puts around a text node
QUOTE == 39         \* "'"
BACKSLASH == 92     \* "\\"
ChN == 110          \* the n of the escape sequence \n

\* str.isspace() over the ASCII range, as used by str.strip()
Whitespace == {9, 10, 11, 12, 13, 28, 29, 30, 31, 32}

\* ------------------------------------------------------------------------
\* Generic helpers
\* ------------------------------------------------------------------------
RECURSIVE Flatten(_)
Flatten(ss) == IF ss = <<>> THEN <<>> ELSE Head(ss) \o Flatten(Tail(ss))

SeqsUpTo(S, n) == UNION {[1..k -> S] : k \in 0..n}

RECURSIVE FilterSeq(_, _)
FilterSeq(s, ev) ==
    IF s = <<>> THEN <<>>
    ELSE IF Head(s).event = ev THEN <<Head(s)>> \o FilterSeq(Tail(s), ev)
         ELSE FilterSeq(Tail(s), ev)

\* ------------------------------------------------------------------------
\* str.strip(): drop leading, then trailing, whitespace
\* ------------------------------------------------------------------------
RECURSIVE lstrip(_)
lstrip(s) == IF s # <<>> /\ Head(s) \in Whitespace THEN lstrip(Tail(s)) ELSE s

RECURSIVE rstrip(_)
rstrip(s) ==
    IF s # <<>> /\ s[Len(s)] \in Whitespace
    THEN rstrip(SubSeq(s, 1, Len(s) - 1)) ELSE s

strip(s) == rstrip(lstrip(s))

\* ------------------------------------------------------------------------
\* js_str_esc (lines 93-121): for c in s, with res as the accumulator.
\* items is what iterating s yields: one-character strings for a str, the
\* list elements for a list (a multi-valued attribute such as class).
\* ------------------------------------------------------------------------
Chars(s) == [i \in 1..Len(s) |-> <<s[i]>>]

EscItem(c) ==
    IF c = <<QUOTE>> THEN <<BACKSLASH, QUOTE>>
    ELSE IF c = <<LF>> THEN <<BACKSLASH, ChN>>
    ELSE IF c = <<BACKSLASH>> THEN <<BACKSLASH, BACKSLASH>>
    ELSE c

RECURSIVE js_str_esc_loop(_, _, _)
js_str_esc_loop(items, i, res) ==
    IF i > Len(items) THEN res
    ELSE js_str_esc_loop(items, i + 1, res \o EscItem(items[i]))

js_str_esc_items(items) == js_str_esc_loop(items, 1, <<>>)

js_str_esc(s) == js_str_esc_items(Chars(s))

\* ------------------------------------------------------------------------
\* html2js (lines 129-166).  A node is a text node [type, string] or an
\* element [type, name, attrs, children]; attrs is the ordered attribute
\* dictionary, each value given as the items js_str_esc iterates over.
\* ------------------------------------------------------------------------
Text(s) == [type |-> "text", string |-> s, name |-> <<>>, attrs |-> <<>>,
            children |-> <<>>]
Element(n, a, c) == [type |-> "tag", string |-> <<>>, name |-> n, attrs |-> a,
                     children |-> c]

KeyClass == <<99, 108, 97, 115, 115>>
KeyClassList == <<99, 108, 97, 115, 115, 76, 105, 115, 116>>
LitOpenCall == <<36, 101, 40, 39>>       \* $e('
LitAttrsOpen == <<39, 44, 123>>          \* ',{
LitKeySep == <<39, 58, 39>>              \* ':'
LitValEnd == <<39, 44>>                  \* ',
LitChildrenOpen == <<125, 44, 91>>       \* },[
LitComma == <<44>>                       \* ,
LitCloseCall == <<93, 41>>               \* ])

Html2jsAttr(a) ==
    LET key == IF a.key = KeyClass THEN KeyClassList ELSE a.key
    IN <<QUOTE>> \o js_str_esc(key) \o LitKeySep \o js_str_esc_items(a.val)
       \o LitValEnd

RECURSIVE html2js(_)
html2js(t) ==
    IF t.type = "text"
    THEN <<DQUOTE>> \o js_str_esc(t.string) \o <<DQUOTE>>
    ELSE LitOpenCall \o js_str_esc(t.name) \o LitAttrsOpen
         \o Flatten([i \in 1..Len(t.attrs) |-> Html2jsAttr(t.attrs[i])])
         \o LitChildrenOpen
         \o Flatten([i \in 1..Len(t.children) |->
                        html2js(t.children[i]) \o LitComma])
         \o LitCloseCall

\* ------------------------------------------------------------------------
\* Documents.  A document is what BeautifulSoup and parse_properties give
\* compile (lines 209-211): the template elements (each the list of its
\* child nodes), the properties dictionary, the style elements' contents
\* and the script elements, all in source order.  Dictionaries are ordered
\* lists of [key, val].
\* ------------------------------------------------------------------------
KeyName == <<110, 97, 109, 101>>        \* name
KeyAttr == <<97, 116, 116, 114>>        \* attr

HasKey(d, k) == \E i \in 1..Len(d) : d[i].key = k
Get(d, k) == d[CHOOSE i \in 1..Len(d) : d[i].key = k].val

Events == {"attr", "constructor", "connected", "disconnected", "getter",
           "setter"}

Script(ev, a, b) == [event |-> ev, attrs |-> a, body |-> b]

Doc(t, pr, st, sc) == [templates |-> t, properties |-> pr, styles |-> st,
                       scripts |-> sc]

\* an output token: one out(...) call (or one fixed group of them) of
\* document doc (0: the module top level)
Tok(k, d, v, n) == [kind |-> k, doc |-> d, val |-> v, names |-> n]

\* ------------------------------------------------------------------------
\* compile, lines 217-225: the style text and the attribute set
\* ------------------------------------------------------------------------
RECURSIVE StyleLoop(_, _)
StyleLoop(ss, acc) ==
    IF ss = <<>> THEN acc
    ELSE StyleLoop(Tail(ss), acc \o strip(Head(ss)))

\* mutant: the concatenation is stripped as a whole
StyleText_Whole(d) == strip(Flatten(d.styles))

StyleText(d) == StyleLoop(d.styles, <<>>)

AttrBlocks(d) == FilterSeq(d.scripts, "attr")

Attributes(d) ==
    {Get(AttrBlocks(d)[i].attrs, KeyAttr) : i \in 1..Len(AttrBlocks(d))}

\* sorted(list(attributes)): str comparison is lexicographic on code points
RECURSIVE StrLess(_, _)
StrLess(a, b) ==
    IF b = <<>> THEN FALSE
    ELSE IF a = <<>> THEN TRUE
    ELSE IF Head(a) # Head(b) THEN Head(a) < Head(b)
    ELSE StrLess(Tail(a), Tail(b))

\* mutant: the list in descending order
RECURSIVE sorted_Descending(_)
sorted_Descending(S) ==
    IF S = {} THEN <<>>
    ELSE LET m == CHOOSE x \in S : \A y \in S \ {x} : StrLess(y, x)
         IN <<m>> \o sorted_Descending(S \ {m})

RECURSIVE sorted(_)
sorted(S) ==
    IF S = {} THEN <<>>
    ELSE LET m == CHOOSE x \in S : \A y \in S \ {x} : StrLess(x, y)
         IN <<m>> \o sorted(S \ {m})

\* ------------------------------------------------------------------------
\* sassc (lines 59-90).  With the executable present at startup each call
\* runs it: the run either cannot be started (subprocess.run raises) or
\* ends with some exit status and some standard output, of which the
\* stripped text is returned whatever the status.  Without it, the fallback
\* of line 90 strips its argument.
\* ------------------------------------------------------------------------
SasscStdouts == {<<>>, <<97>>, <<97, 32>>}
SasscOutcomes == {"exit0", "nonzero", "unreachable"}

SasscRun(s, outcome, stdout) ==
    IF outcome = "unreachable"
    THEN [raised |-> TRUE, outcome |-> outcome, value |-> <<>>]
    ELSE [raised |-> FALSE, outcome |-> outcome, value |-> strip(stdout)]

sassc(s) ==
    IF sasscPresent
    THEN {SasscRun(s, o, so) : o \in SasscOutcomes, so \in SasscStdouts}
    ELSE {[raised |-> FALSE, outcome |-> "fallback", value |-> strip(s)]}

\* ------------------------------------------------------------------------
\* The run.  pc is the position in the module top level (lines 292-304)
\* and, inside compile, the section about to be emitted.
\* ------------------------------------------------------------------------
Emit(toks) == out' = out \o toks

\* mutant: the exception is caught around compile and the loop goes on
Raise_Swallowed(e) == pc' = "loop" /\ err' = e

\* an unhandled exception: the interpreter exits, what was printed stays
Raise(e) == pc' = "fatal" /\ err' = e

Goto(l) == pc' = l /\ err' = err

\* mutant: the assertion only asks for some template
TemplateCountOk_AtLeastOne(d) == Len(d.templates) >= 1

\* line 214
TemplateCountOk(d) == Len(d.templates) = 1

Bodies(d, ev) ==
    LET bs == FilterSeq(d.scripts, ev)
    IN [i \in 1..Len(bs) |-> Tok("body", p, bs[i].body, <<>>)]

\* lines 292-300: the $e helper
EmitHelper ==
    /\ pc = "start"
    /\ Emit(<<Tok("helper", 0, <<>>, <<>>)>>)
    /\ Goto("loop")
    /\ UNCHANGED <<argv, sasscPresent, p, style, attributes, sasscLog, fnVars>>

\* mutant: the helper is printed inside the loop, before each document
OpenDoc_WithHelper ==
    /\ pc = "loop"
    /\ p < Len(argv)
    /\ p' = p + 1
    /\ Emit(<<Tok("helper", 0, <<>>, <<>>)>>)
    /\ Goto("compile")
    /\ UNCHANGED <<argv, sasscPresent, style, attributes, sasscLog, fnVars>>

\* lines 302-304: the next argument is read and handed to compile
OpenDoc ==
    /\ pc = "loop"
    /\ p < Len(argv)
    /\ p' = p + 1
    /\ Goto("compile")
    /\ UNCHANGED <<argv, sasscPresent, out, style, attributes, sasscLog, fnVars>>

\* line 302: no argument is left
Exit ==
    /\ pc = "loop"
    /\ p = Len(argv)
    /\ Goto("done")
    /\ UNCHANGED <<argv, sasscPresent, p, out, style, attributes, sasscLog, fnVars>>

\* lines 209-228: the template assertion, the style text, the attribute
\* set (s["attr"] raises KeyError on a block without attr), then the
\* customElements.define header (properties['name'] raises KeyError)
CompileBegin ==
    /\ pc = "compile"
    /\ LET d == argv[p] IN
       IF ~TemplateCountOk(d)
       THEN Raise("AssertionError") /\ UNCHANGED <<out, style, attributes>>
       ELSE IF \E i \in 1..Len(AttrBlocks(d)) :
                  ~HasKey(AttrBlocks(d)[i].attrs, KeyAttr)
       THEN Raise("KeyError") /\ UNCHANGED <<out, style, attributes>>
       ELSE IF ~HasKey(d.properties, KeyName)
       THEN Raise("KeyError") /\ UNCHANGED <<out, style, attributes>>
       ELSE /\ style' = StyleText(d)
            /\ attributes' = Attributes(d)
            /\ Emit(<<Tok("define", p, Get(d.properties, KeyName), <<>>),
                      Tok("class", p, <<>>, <<>>)>>)
            /\ Goto("ctor")
    /\ UNCHANGED <<argv, sasscPresent, p, sasscLog, fnVars>>

\* mutant: the constructor blocks are inlined right after the attach
CtorOpen_BodiesFirst ==
    /\ pc = "ctor"
    /\ Emit(<<Tok("constructor", p, <<>>, <<>>), Tok("super", p, <<>>, <<>>),
              Tok("attachShadow", p, <<>>, <<>>)>>
            \o Bodies(argv[p], "constructor"))
    /\ Goto("style")
    /\ UNCHANGED <<argv, sasscPresent, p, style, attributes, sasscLog, fnVars>>

\* lines 230-232
CtorOpen ==
    /\ pc = "ctor"
    /\ Emit(<<Tok("constructor", p, <<>>, <<>>), Tok("super", p, <<>>, <<>>),
              Tok("attachShadow", p, <<>>, <<>>)>>)
    /\ Goto("style")
    /\ UNCHANGED <<argv, sasscPresent, p, style, attributes, sasscLog, fnVars>>

\* lines 234-238
CtorStyle ==
    /\ pc = "style"
    /\ IF style = <<>>
       THEN Goto("template") /\ UNCHANGED <<out, style, sasscLog>>
       ELSE \E r \in sassc(style) :
              /\ sasscLog' = Append(sasscLog,
                    [doc |-> p, arg |-> style, outcome |-> r.outcome])
              /\ IF r.raised
                 THEN Raise("OSError") /\ UNCHANGED <<out, style>>
                 ELSE /\ style' = r.value
                      /\ Emit(<<Tok("style", p, js_str_esc(r.value), <<>>)>>)
                      /\ Goto("template")
    /\ UNCHANGED <<argv, sasscPresent, p, attributes, fnVars>>

\* lines 240-243: one append per child of the template element
CtorTemplate ==
    /\ pc = "template"
    /\ LET tpl == argv[p].templates[1]
       IN Emit([i \in 1..Len(tpl) |-> Tok("append", p, html2js(tpl[i]), <<>>)])
    /\ Goto("ctorscripts")
    /\ UNCHANGED <<argv, sasscPresent, p, style, attributes, sasscLog, fnVars>>

\* lines 245-248
CtorScripts ==
    /\ pc = "ctorscripts"
    /\ Emit(Bodies(argv[p], "constructor") \o <<Tok("end", p, <<>>, <<>>)>>)
    /\ Goto("observed")
    /\ UNCHANGED <<argv, sasscPresent, p, style, attributes, sasscLog, fnVars>>

\* lines 250-253
ObservedAttributes ==
    /\ pc = "observed"
    /\ IF attributes # {}
       THEN Emit(<<Tok("observedAttributes", p, <<>>, sorted(attributes))>>)
       ELSE UNCHANGED out
    /\ Goto("connected")
    /\ UNCHANGED <<argv, sasscPresent, p, style, attributes, sasscLog, fnVars>>

\* mutant: the hook is emitted whether or not a block exists
Find_Always(d, ev) == TRUE

\* soup.find("script", event=ev) is not None
Find(d, ev) == FilterSeq(d.scripts, ev) # <<>>

Hook(d, ev, kind) ==
    IF Find(d, ev)
    THEN <<Tok(kind, p, <<>>, <<>>)>> \o Bodies(d, ev)
         \o <<Tok("end", p, <<>>, <<>>)>>
    ELSE <<>>

\* lines 255-261
Connected ==
    /\ pc = "connected"
    /\ Emit(Hook(argv[p], "connected", "connectedCallback"))
    /\ Goto("disconnected")
    /\ UNCHANGED <<argv, sasscPresent, p, style, attributes, sasscLog, fnVars>>

\* lines 263-269
Disconnected ==
    /\ pc = "disconnected"
    /\ Emit(Hook(argv[p], "disconnected", "disconnectedCallback"))
    /\ Goto("getters")
    /\ UNCHANGED <<argv, sasscPresent, p, style, attributes, sasscLog, fnVars>>

\* the accessor loops of lines 271-279: each block gives its header, its
\* body and a closing brace; bs[k]["name"] raises KeyError before anything
\* of block k is printed
RECURSIVE Accessors(_, _)
Accessors(bs, kind) ==
    IF bs = <<>> \/ ~HasKey(Head(bs).attrs, KeyName) THEN <<>>
    ELSE <<Tok(kind, p, Get(Head(bs).attrs, KeyName), <<>>),
           Tok("body", p, Head(bs).body, <<>>),
           Tok("end", p, <<>>, <<>>)>> \o Accessors(Tail(bs), kind)

AllNamed(bs) == \A i \in 1..Len(bs) : HasKey(bs[i].attrs, KeyName)

\* lines 271-274
Getters ==
    /\ pc = "getters"
    /\ LET bs == FilterSeq(argv[p].scripts, "getter") IN
       /\ Emit(Accessors(bs, "get"))
       /\ IF AllNamed(bs) THEN Goto("setters") ELSE Raise("KeyError")
    /\ UNCHANGED <<argv, sasscPresent, p, style, attributes, sasscLog, fnVars>>

\* lines 276-279
Setters ==
    /\ pc = "setters"
    /\ LET bs == FilterSeq(argv[p].scripts, "setter") IN
       /\ Emit(Accessors(bs, "set"))
       /\ IF AllNamed(bs) THEN Goto("attrchanged") ELSE Raise("KeyError")
    /\ UNCHANGED <<argv, sasscPresent, p, style, attributes, sasscLog, fnVars>>

\* lines 283-286: one guarded branch per attr block
Branches(bs) ==
    Flatten([i \in 1..Len(bs) |->
        <<Tok("if", p, js_str_esc(Get(bs[i].attrs, KeyAttr)), <<>>),
          Tok("body", p, bs[i].body, <<>>),
          Tok("end", p, <<>>, <<>>)>>])

\* lines 281-287
AttributeChanged ==
    /\ pc = "attrchanged"
    /\ IF attributes # {}
       THEN Emit(<<Tok("attributeChangedCallback", p, <<>>, <<>>)>>
                 \o Branches(AttrBlocks(argv[p]))
                 \o <<Tok("end", p, <<>>, <<>>)>>)
       ELSE UNCHANGED out
    /\ Goto("close")
    /\ UNCHANGED <<argv, sasscPresent, p, style, attributes, sasscLog, fnVars>>

\* line 289, and the return to the loop of line 302
Close ==
    /\ pc = "close"
    /\ Emit(<<Tok("close", p, <<>>, <<>>)>>)
    /\ Goto("loop")
    /\ UNCHANGED <<argv, sasscPresent, p, style, attributes, sasscLog, fnVars>>

\* ------------------------------------------------------------------------
\* Inputs
\* ------------------------------------------------------------------------
NameProp == <<[key |-> KeyName, val |-> <<120>>]>>      \* <!-- name x -->

Span == <<115, 112, 97, 110>>
Tpl1 == <<Text(<<97>>)>>
Tpl2 == <<Element(Span, <<>>, <<Text(<<104>>)>>), Text(<<LF>>)>>

BlockKinds ==
    {[event |-> "attr", attrs |-> a] :
        a \in {<<>>, <<[key |-> KeyAttr, val |-> <<97>>]>>,
               <<[key |-> KeyAttr, val |-> <<98>>]>>}}
    \cup {[event |-> e, attrs |-> a] :
            e \in {"getter", "setter"},
            a \in {<<>>, <<[key |-> KeyName, val |-> <<97>>]>>}}
    \cup {[event |-> e, attrs |-> <<>>] :
            e \in {"constructor", "connected", "disconnected"}}

\* the i-th script element has the body "0" + i, so bodies tell blocks apart
ScriptSeqs ==
    {[i \in 1..Len(ks) |-> Script(ks[i].event, ks[i].attrs, <<48 + i>>)] :
        ks \in SeqsUpTo(BlockKinds, MaxScripts)}

StyleTexts == SeqsUpTo({32, 97}, MaxStyleLen)
StyleLists == SeqsUpTo(StyleTexts, MaxStyles)

BasicDocs ==
    {Doc(ts, pr, <<>>, <<>>) :
        ts \in {<<>>, <<Tpl1>>, <<Tpl1, Tpl1>>}, pr \in {<<>>, NameProp}}
    \cup {Doc(<<Tpl1>>, NameProp, <<<<97>>>>,
              <<Script("getter", <<>>, <<49>>)>>),
          Doc(<<Tpl1>>, NameProp, <<>>,
              <<Script("getter", <<[key |-> KeyName, val |-> <<97>>]>>, <<49>>)>>)}

ScriptDocs ==
    {Doc(<<Tpl2>>, NameProp, st, sc) :
        st \in {<<>>, <<<<32, 97>>>>}, sc \in ScriptSeqs}

StyleDocs == {Doc(<<Tpl1>>, NameProp, st, <<>>) : st \in StyleLists}

Argvs ==
    SeqsUpTo(BasicDocs, MaxDocs) \cup {<<d>> : d \in ScriptDocs \cup StyleDocs}

Alphabet == {QUOTE, DQUOTE, LF, BACKSLASH, 13, ChN, 97}
TextNodes == {Text(s) : s \in SeqsUpTo(Alphabet, MaxLen)}
AttrLists ==
    {<<>>, <<[key |-> KeyClass, val |-> <<<<97>>, <<98>>>>]>>,
     <<[key |-> <<105, 100>>, val |-> Chars(<<QUOTE, 97>>)]>>}
Nodes ==
    TextNodes
    \cup {Element(Span, a, c) :
            a \in AttrLists, c \in {<<>>} \cup {<<t>> : t \in TextNodes}}

\* ------------------------------------------------------------------------
\* Specification of the run
\* ------------------------------------------------------------------------
Init ==
    /\ argv \in Argvs
    /\ sasscPresent \in BOOLEAN        \* lines 89-90, decided at import
    /\ p = 0
    /\ pc = "start"
    /\ err = "none"
    /\ out = <<>>
    /\ style = <<>>
    /\ attributes = {}
    /\ sasscLog = <<>>
    /\ tag = Text(<<>>)
    /\ ret = <<>>
    /\ fpc = "off"

Next ==
    \/ EmitHelper
    \/ OpenDoc
    \/ Exit
    \/ CompileBegin
    \/ CtorOpen
    \/ CtorStyle
    \/ CtorTemplate
    \/ CtorScripts
    \/ ObservedAttributes
    \/ Connected
    \/ Disconnected
    \/ Getters
    \/ Setters
    \/ AttributeChanged
    \/ Close

Spec == Init /\ [][Next]_vars

\* ------------------------------------------------------------------------
\* Specification of the pure functions: js_str_esc and html2js applied to
\* a node drawn from Nodes
\* ------------------------------------------------------------------------
InitFn ==
    /\ tag \in Nodes
    /\ ret = <<>>
    /\ fpc = "init"
    /\ argv = <<>>
    /\ sasscPresent = FALSE
    /\ p = 0
    /\ pc = "off"
    /\ err = "none"
    /\ out = <<>>
    /\ style = <<>>
    /\ attributes = {}
    /\ sasscLog = <<>>

CallJsStrEsc ==
    /\ fpc = "init"
    /\ tag.type = "text"
    /\ ret' = js_str_esc(tag.string)
    /\ fpc' = "js_str_esc"
    /\ UNCHANGED <<tag, progVars>>

CallHtml2js ==
    /\ fpc = "init"
    /\ ret' = html2js(tag)
    /\ fpc' = "html2js"
    /\ UNCHANGED <<tag, progVars>>

NextFn == CallJsStrEsc \/ CallHtml2js

SpecFn == InitFn /\ [][NextFn]_vars

\* ------------------------------------------------------------------------
\* Vocabulary of the properties
\* ------------------------------------------------------------------------
Range(s) == {s[i] : i \in 1..Len(s)}

DocToks(k) == SelectSeq(out, LAMBDA t : t.doc = k)

KindToks(toks, kind) == SelectSeq(toks, LAMBDA t : t.kind = kind)

Completed(k) == \E i \in 1..Len(out) : out[i].doc = k /\ out[i].kind = "close"

\* compile has returned or raised for document k
Ended(k) == k < p \/ (k = p /\ pc \in {"loop", "done", "fatal"})

Failed(k) == k = p /\ pc = "fatal" /\ ~Completed(k)

SasscRaised(k) ==
    \E i \in 1..Len(sasscLog) :
        sasscLog[i].doc = k /\ sasscLog[i].outcome = "unreachable"

BlocksOf(d, ev) ==
    LET idx == {i \in 1..Len(d.scripts) : d.scripts[i].event = ev}
        nth[n \in 0..Cardinality(idx)] ==
            IF n = 0 THEN <<>>
            ELSE LET prev == nth[n - 1]
                     used == {prev[j] : j \in 1..Len(prev)}
                     m == CHOOSE i \in idx \ used : \A j \in idx \ used : i <= j
                 IN Append(prev, m)
    IN [n \in 1..Cardinality(idx) |-> d.scripts[nth[Cardinality(idx)][n]]]

BodiesOf(d, ev) == [i \in 1..Len(BlocksOf(d, ev)) |-> BlocksOf(d, ev)[i].body]

RequiredKeysPresent(d) ==
    \A i \in 1..Len(d.scripts) :
        /\ d.scripts[i].event = "attr" => HasKey(d.scripts[i].attrs, KeyAttr)
        /\ d.scripts[i].event \in {"getter", "setter"}
              => HasKey(d.scripts[i].attrs, KeyName)

\* ------------------------------------------------------------------------
\* C1
\* ------------------------------------------------------------------------
\* C1 as stated: a document whose compilation has ended has failed, with no
\* class definition completed, if it holds zero or several template
\* elements, and has succeeded, its class definition complete, if it holds
\* exactly one.
C1_TemplateCountDecides ==
    \A k \in 1..p :
        Ended(k) =>
            IF Len(argv[k].templates) = 1
            THEN Completed(k) /\ ~Failed(k)
            ELSE Failed(k)

\* C1 amended: zero or several template elements always fail; exactly one
\* succeeds provided the name property is present, every attr block has its
\* attr attribute and every getter and setter block its name attribute, and
\* the call to the style preprocessor, when made, raises no error;
\* otherwise the document fails as well.
C1_TemplateCountAmended ==
    \A k \in 1..p :
        Ended(k) =>
            IF /\ Len(argv[k].templates) = 1
               /\ HasKey(argv[k].properties, KeyName)
               /\ RequiredKeysPresent(argv[k])
               /\ ~SasscRaised(k)
            THEN Completed(k) /\ ~Failed(k)
            ELSE Failed(k)

\* a first document with one template compiled, a second with two failed
C1_Witness ==
    /\ p = 2
    /\ Len(argv[1].templates) = 1 /\ Completed(1)
    /\ Len(argv[2].templates) = 2 /\ Failed(2)

\* ------------------------------------------------------------------------
\* C2
\* ------------------------------------------------------------------------
\* C2: every emitted observedAttributes array holds exactly the attr names
\* of the document's attr blocks, in strictly ascending order (so none
\* twice), whatever the number and the source order of the blocks.
C2_ObservedSortedDistinct ==
    \A i \in 1..Len(out) :
        out[i].kind = "observedAttributes" =>
            LET ns == out[i].names
                bs == BlocksOf(argv[out[i].doc], "attr")
            IN /\ Range(ns) = {Get(bs[j].attrs, KeyAttr) : j \in 1..Len(bs)}
               /\ \A a, b \in 1..Len(ns) : a < b => StrLess(ns[a], ns[b])

\* two attr blocks named b then a: the array emitted is [a, b]
C2_Witness ==
    \E i \in 1..Len(out) :
        /\ out[i].kind = "observedAttributes"
        /\ LET bs == BlocksOf(argv[out[i].doc], "attr")
           IN /\ Len(bs) = 2
              /\ Get(bs[1].attrs, KeyAttr) = <<98>>
              /\ Get(bs[2].attrs, KeyAttr) = <<97>>
        /\ out[i].names = <<<<97>>, <<98>>>>

\* ------------------------------------------------------------------------
\* C4
\* ------------------------------------------------------------------------
SectionKinds == {"constructor", "observedAttributes", "connectedCallback",
                 "disconnectedCallback", "get", "set",
                 "attributeChangedCallback"}

\* the class body of document k as emitted: its sections in order, each
\* with the token that opens it and the script bodies printed inside it
SectionsOf(k) ==
    LET toks == DocToks(k)
        opens == {i \in 1..Len(toks) : toks[i].kind \in SectionKinds}
        Inside(i) == {j \in 1..Len(toks) :
                        /\ j > i
                        /\ toks[j].kind = "body"
                        /\ \A o \in opens : ~(i < o /\ o < j)}
        Sec(i) == [kind |-> toks[i].kind, name |-> toks[i].val,
                   bodies |-> [n \in 1..Cardinality(Inside(i)) |->
                       toks[CHOOSE j \in Inside(i) :
                           Cardinality({m \in Inside(i) : m < j}) = n - 1].val]]
    IN [n \in 1..Cardinality(opens) |->
           Sec(CHOOSE i \in opens : Cardinality({m \in opens : m < i}) = n - 1)]

Section(kind, name, bodies) == [kind |-> kind, name |-> name, bodies |-> bodies]

OptionalHook(d, ev, kind) ==
    IF BlocksOf(d, ev) # <<>> THEN <<Section(kind, <<>>, BodiesOf(d, ev))>>
    ELSE <<>>

AccessorSections(d, ev, kind) ==
    [i \in 1..Len(BlocksOf(d, ev)) |->
        Section(kind, Get(BlocksOf(d, ev)[i].attrs, KeyName),
                <<BlocksOf(d, ev)[i].body>>)]

\* the class body the claim describes for document d
ClassLayout(d) ==
    <<Section("constructor", <<>>, BodiesOf(d, "constructor"))>>
    \o (IF BlocksOf(d, "attr") # <<>>
        THEN <<Section("observedAttributes", <<>>, <<>>)>> ELSE <<>>)
    \o OptionalHook(d, "connected", "connectedCallback")
    \o OptionalHook(d, "disconnected", "disconnectedCallback")
    \o AccessorSections(d, "getter", "get")
    \o AccessorSections(d, "setter", "set")
    \o OptionalHook(d, "attr", "attributeChangedCallback")

\* C4: the class body of every compiled document has the constructor, then
\* observedAttributes iff an attr block exists, connectedCallback iff a
\* connected block exists, disconnectedCallback iff a disconnected block
\* exists, one getter per getter block and one setter per setter block in
\* source order, attributeChangedCallback iff an attr block exists; each
\* hook occurs once and holds the bodies of its role in source order.
C4_SectionOrder ==
    \A k \in 1..p : Completed(k) => SectionsOf(k) = ClassLayout(argv[k])

\* a compiled document with two connected blocks: one hook, both bodies
C4_Witness ==
    \E k \in 1..p :
        /\ Completed(k)
        /\ Len(BlocksOf(argv[k], "connected")) = 2
        /\ Len(KindToks(DocToks(k), "connectedCallback")) = 1

\* ------------------------------------------------------------------------
\* C5
\* ------------------------------------------------------------------------
DocsOf(toks) == [i \in 1..Len(toks) |-> toks[i].doc]

\* C5: once printing has begun the output starts with the helper, which
\* occurs nowhere else; the class definitions follow it in argument order,
\* and when the run ends normally there is exactly one, complete, per
\* argument (none for no argument).
C5_HelperOnceThenClasses ==
    /\ pc = "start" => out = <<>>
    /\ pc # "start" => out # <<>> /\ out[1].kind = "helper"
    /\ \A i \in 2..Len(out) : out[i].kind # "helper"
    /\ \A i, j \in 1..Len(out) : i < j => out[i].doc <= out[j].doc
    /\ \A i, j \in 1..Len(out) :
          (i < j /\ out[i].kind = "define" /\ out[j].kind = "define")
              => out[i].doc < out[j].doc
    /\ pc = "done" =>
          /\ DocsOf(KindToks(out, "define")) = [k \in 1..Len(argv) |-> k]
          /\ DocsOf(KindToks(out, "close")) = [k \in 1..Len(argv) |-> k]

\* two documents compiled and the run over
C5_Witness == pc = "done" /\ Len(argv) = 2 /\ Completed(1) /\ Completed(2)

\* ------------------------------------------------------------------------
\* C7
\* ------------------------------------------------------------------------
\* s without its leading and trailing whitespace
Trim(s) ==
    LET ink == {i \in 1..Len(s) : s[i] \notin Whitespace}
    IN IF ink = {} THEN <<>>
       ELSE SubSeq(s, CHOOSE i \in ink : \A j \in ink : i <= j,
                      CHOOSE i \in ink : \A j \in ink : j <= i)

StyleHandedIs(F(_)) ==
    \A k \in 1..p :
        LET runs == SelectSeq(sasscLog, LAMBDA e : e.doc = k)
            emitted == KindToks(DocToks(k), "style")
        IN /\ Len(runs) <= 1
           /\ \A i \in 1..Len(runs) : runs[i].arg = F(argv[k].styles)
           /\ Completed(k) =>
                 (Len(runs) = 1 <=> F(argv[k].styles) # <<>>)
           /\ \A i \in 1..Len(runs) :
                 runs[i].outcome = "fallback" =>
                    /\ Len(emitted) = 1
                    /\ emitted[1].val = js_str_esc(runs[i].arg)
           /\ argv[k].styles = <<>> => emitted = <<>>

WholeTrimmed(styles) == Trim(Flatten(styles))
EachTrimmed(styles) == Flatten([i \in 1..Len(styles) |-> Trim(styles[i])])

\* C7 as stated: the text handed to the preprocessor (or to the
\* pass-through) is the concatenation of the style elements' inner text
\* with only the ends of the whole trimmed, whitespace between elements
\* kept; no style construction without style elements.
C7_StyleWholeTrimmed == StyleHandedIs(WholeTrimmed)

\* C7 amended: the text handed over is the concatenation, in source order,
\* of the inner text of every style element, each trimmed of its own
\* surrounding whitespace; no style construction without style elements.
C7_StyleEachTrimmed == StyleHandedIs(EachTrimmed)

\* two style elements with whitespace where they meet, handed over
C7_Witness ==
    \E i \in 1..Len(sasscLog) :
        LET st == argv[sasscLog[i].doc].styles
        IN /\ Len(st) = 2
           /\ st[1] = <<97, 32>> /\ st[2] = <<32, 97>>
           /\ sasscLog[i].arg = <<97, 97>>

\* ------------------------------------------------------------------------
\* C8
\* ------------------------------------------------------------------------
\* the tokens of document k from the constructor's opening up to, not
\* including, the brace that closes it
CtorToks(k) ==
    LET toks == DocToks(k)
        ends == {i \in 1..Len(toks) : toks[i].kind = "end"}
        last == IF ends = {} THEN Len(toks)
                ELSE (CHOOSE i \in ends : \A j \in ends : i <= j) - 1
    IN SubSeq(toks, 3, last)

CtorClosed(k) == \E i \in 1..Len(out) : out[i].doc = k /\ out[i].kind = "end"

Vals(toks) == [i \in 1..Len(toks) |-> toks[i].val]

CtorRank(kind) ==
    CASE kind = "constructor" -> 1
      [] kind = "super" -> 2
      [] kind = "attachShadow" -> 3
      [] kind = "style" -> 4
      [] kind = "append" -> 5
      [] kind = "body" -> 6
      [] OTHER -> 0

\* C8: in every constructor the shadow-root attach comes first, then the
\* style append iff the style text is non-empty, then one append per child
\* of the template in document order, then the constructor blocks' bodies
\* in source order; no body precedes a style or template append.
C8_ConstructorOrder ==
    \A k \in 1..p :
        LET c == CtorToks(k)
            d == argv[k]
        IN /\ \A i, j \in 1..Len(c) :
                 i < j => 0 < CtorRank(c[i].kind)
                          /\ CtorRank(c[i].kind) <= CtorRank(c[j].kind)
           /\ Len(KindToks(c, "attachShadow")) <= 1
           /\ CtorClosed(k) =>
                /\ Len(KindToks(c, "attachShadow")) = 1
                /\ Len(KindToks(c, "style"))
                      = (IF EachTrimmed(d.styles) # <<>> THEN 1 ELSE 0)
                /\ Vals(KindToks(c, "append"))
                      = [i \in 1..Len(d.templates[1]) |->
                            html2js(d.templates[1][i])]
                /\ Vals(KindToks(c, "body")) = BodiesOf(d, "constructor")

\* a finished constructor with a style, two template children and a
\* constructor block
C8_Witness ==
    \E k \in 1..p :
        /\ CtorClosed(k)
        /\ Len(KindToks(CtorToks(k), "style")) = 1
        /\ Len(KindToks(CtorToks(k), "append")) = 2
        /\ Len(KindToks(CtorToks(k), "body")) >= 1

\* ------------------------------------------------------------------------
\* C6
\* ------------------------------------------------------------------------
\* C6 as stated: with the preprocessor present, a run of it that fails
\* (non-zero exit status, or the executable cannot be started) ends the
\* compilation of its document in a fatal error, and no style construction
\* is emitted for that document.
C6_StyleToolFailureFatal ==
    \A i \in 1..Len(sasscLog) :
        sasscLog[i].outcome \in {"nonzero", "unreachable"} =>
            /\ pc = "fatal"
            /\ p = sasscLog[i].doc
            /\ KindToks(DocToks(sasscLog[i].doc), "style") = <<>>

\* ------------------------------------------------------------------------
\* C10
\* ------------------------------------------------------------------------
IsPrefix(a, b) == Len(a) <= Len(b) /\ SubSeq(b, 1, Len(a)) = a

\* documents one after another in argument order; after a fatal error in
\* document p nothing of a later document is there and p's class is open
C10_State ==
    /\ \A i, j \in 1..Len(out) : i < j => out[i].doc <= out[j].doc
    /\ \A i \in 1..Len(out) : out[i].doc <= p
    /\ \A k \in 1..p : k < p => Completed(k)
    /\ err # "none" =>
          /\ p >= 1
          /\ ~Completed(p)
          /\ \A i \in 1..Len(out) : out[i].doc <= p

\* what is printed stays printed; after a fatal error nothing is printed
\* and no further document is opened
C10_Step ==
    /\ IsPrefix(out, out')
    /\ p' \in {p, p + 1}
    /\ err # "none" => (out' = out /\ p' = p /\ err' = err)

\* C10: documents are compiled strictly in argument order and the first
\* fatal error ends the run: nothing of a later document is ever emitted,
\* what was emitted before is kept, and the failing document's class
\* definition is never closed.
C10_FirstFatalEndsRun == [](C10_State) /\ [][C10_Step]_vars

\* the first of two documents failed after its class was opened
C10_Witness ==
    /\ pc = "fatal" /\ p = 1 /\ Len(argv) = 2
    /\ Len(KindToks(DocToks(1), "define")) = 1
    /\ ~Completed(1)

\* ------------------------------------------------------------------------
\* C3 and C9: reading a JS string literal (ECMAScript StringLiteral)
\* ------------------------------------------------------------------------
\* LineTerminator code points that may not occur raw in a string literal
JsLineTerminators == {LF, 13}

\* the value of the escape sequence backslash c (single-character escapes,
\* line continuations, and NonEscapeCharacter)
JsEscapeValue(c) ==
    CASE c = ChN -> <<LF>>
      [] c = 114 -> <<13>>
      [] c = 116 -> <<9>>
      [] c = 98 -> <<8>>
      [] c = 102 -> <<12>>
      [] c = 118 -> <<11>>
      [] c = 48 -> <<0>>
      [] c \in JsLineTerminators -> <<>>
      [] OTHER -> <<c>>

Unreadable == [ok |-> FALSE, val |-> <<>>, end |-> 0]

RECURSIVE JsScan(_, _, _, _)
JsScan(src, i, delim, acc) ==
    IF i > Len(src) THEN Unreadable
    ELSE IF src[i] = delim THEN [ok |-> TRUE, val |-> acc, end |-> i]
    ELSE IF src[i] \in JsLineTerminators THEN Unreadable
    ELSE IF src[i] = BACKSLASH
    THEN IF i = Len(src) THEN Unreadable
         ELSE JsScan(src, i + 2, delim, acc \o JsEscapeValue(src[i + 1]))
    ELSE JsScan(src, i + 1, delim, Append(acc, src[i]))

\* the string literal src starts with: whether there is one, the text it
\* denotes and the position of its closing delimiter
JsReadLiteral(src) ==
    IF src = <<>> \/ src[1] \notin {QUOTE, DQUOTE} THEN Unreadable
    ELSE JsScan(src, 2, src[1], <<>>)

\* src is a string literal, the whole of it, and denotes t
Denotes(src, t) ==
    LET r == JsReadLiteral(src)
    IN r.ok /\ r.val = t /\ r.end = Len(src)

CharMap(c) ==
    CASE c = QUOTE -> <<BACKSLASH, QUOTE>>
      [] c = LF -> <<BACKSLASH, ChN>>
      [] c = BACKSLASH -> <<BACKSLASH, BACKSLASH>>
      [] OTHER -> <<c>>

\* C3 as stated: js_str_esc(t) is the character-by-character image of t
\* (quote, newline and backslash escaped, the rest unchanged) and, between
\* single quotes, is a JS string literal that denotes exactly t.
C3_EscapeRoundTrip ==
    fpc = "js_str_esc" =>
        /\ ret = Flatten([i \in 1..Len(tag.string) |-> CharMap(tag.string[i])])
        /\ Denotes(<<QUOTE>> \o ret \o <<QUOTE>>, tag.string)

\* C9 as stated: what html2js emits for a text node is a string literal
\* that, read with the delimiter emitted, denotes exactly the node's text
\* and ends where the emitted text ends.
C9_TextNodeLiteral ==
    (fpc = "html2js" /\ tag.type = "text") => Denotes(ret, tag.string)

====
